---- MODULE Spec2Model ----
(***************************************************************************)
(* A model of the moto package: the HNAP action client of                  *)
(* moto/moto_client.py (allow-list, request signing, login handshake,      *)
(* response unwrapping) and the channel table decoders of                  *)
(* moto/downstream_channel.py and moto/upstream_channel.py.                *)
(*                                                                         *)
(* Text that the decoders take apart is a sequence of one-character        *)
(* strings, so that split, strip and the numeric conversions are computed  *)
(* character by character as Python computes them.  Text that the client   *)
(* only concatenates and compares (keys, action names, header values) is a *)
(* TLA+ string.                                                            *)
(***************************************************************************)
EXTENDS Integers, Sequences, FiniteSets, TLC

VARIABLES
    cookies,    \* MotoClient._session.cookies: the jar holding "uid" and "PrivateKey"
    clock,      \* time(): the wall clock, in milliseconds
    sent,       \* the requests the client has posted so far, in order
    received,   \* the response body received last, answering the last of sent
    result,     \* how the last client call ended
    pc,         \* where the client is: "idle", or "login2" inside login()
    frame,      \* the local variables of login() between its two requests
    rows,       \* the records the modem joined into the table being decoded
    gen,        \* the generator object returned by from_response
    records,    \* the records the caller has taken from the generator
    raised,     \* the exception that came out of the generator to the caller
    replay,     \* a second pass of the caller over the same generator object
    sink,       \* the records this run of _ingest has given to InfluxClient.ingest
    log,        \* the failures this run of _ingest has logged with log.exception
    poll        \* the runs of _ingest so far, and where the current one is

vars ==
    <<cookies, clock, sent, received, result, pc, frame, rows, gen, records, raised,
      replay, sink, log, poll>>

(***************************************************************************)
(* Bounds of the model.                                                    *)
(***************************************************************************)
MaxSent == 3        \* requests posted in one behaviour
MaxClock == 1       \* the clock readings are 0..MaxClock
MaxRecords == 2     \* records joined into one channel table

(***************************************************************************)
(* Python str operations on character sequences.                           *)
(***************************************************************************)
Caret == <<"^">>
TableSep == <<"|", "+", "|">>
Whitespace == {" "}
Digits == {"0", "1", "2", "3", "4", "5", "6", "7", "8", "9"}

\* the least of a set of indexes, 0 when there is none
Leftmost(hits) ==
    IF hits = {} THEN 0 ELSE CHOOSE i \in hits : \A j \in hits : i <= j

\* str.find(sep): the index of the leftmost occurrence of sep in s, 0 when none
find(s, sep) ==
    Leftmost({i \in 1..(Len(s) - Len(sep) + 1) : SubSeq(s, i, i + Len(sep) - 1) = sep})

\* s cut at the separator found at index i
cut(s, sep, i) ==
    IF i = 0 THEN <<s>>
    ELSE <<SubSeq(s, 1, i - 1), SubSeq(s, i + Len(sep), Len(s))>>

\* str.split(sep, 1): at most one cut, at the leftmost separator
split1(s, sep) == cut(s, sep, find(s, sep))

RECURSIVE split(_, _)
RECURSIVE split_rest(_, _)
\* str.split(sep): cut at every separator, left to right; never an empty list
split(s, sep) == split_rest(split1(s, sep), sep)

split_rest(parts, sep) ==
    IF Len(parts) = 1 THEN parts ELSE <<parts[1]>> \o split(parts[2], sep)

RECURSIVE rstrip(_, _)
\* str.rstrip(chars)
rstrip(s, chars) ==
    IF s # <<>> /\ s[Len(s)] \in chars THEN rstrip(SubSeq(s, 1, Len(s) - 1), chars) ELSE s

RECURSIVE lstrip(_, _)
\* str.lstrip(chars)
lstrip(s, chars) ==
    IF s # <<>> /\ s[1] \in chars THEN lstrip(Tail(s), chars) ELSE s

\* str.strip()
strip(s) == rstrip(lstrip(s, Whitespace), Whitespace)

RECURSIVE join(_, _)
\* sep.join(parts): how a table is put together from its records
join(parts, sep) ==
    IF parts = <<>> THEN <<>>
    ELSE IF Len(parts) = 1 THEN parts[1]
    ELSE parts[1] \o sep \o join(Tail(parts), sep)

(***************************************************************************)
(* Exceptions.  An exception is its Python type and its message; NoError   *)
(* stands for "nothing was raised".                                        *)
(***************************************************************************)
Error(type, msg) == [type |-> type, msg |-> msg]
NoError == Error("", "")
UnpackError == Error("ValueError", "not enough values to unpack (expected 2, got 1)")
IntError == Error("ValueError", "invalid literal for int() with base 10")
DecimalError == Error("InvalidOperation", "ConversionSyntax")

(***************************************************************************)
(* What a call gives back: the value it returned, or the exception it      *)
(* raised.                                                                 *)
(***************************************************************************)
Returned(value) == [ok |-> TRUE, value |-> value, error |-> NoError]
Raised(error) == [ok |-> FALSE, value |-> 0, error |-> error]

(***************************************************************************)
(* int(text) and Decimal(text).  Both strip surrounding whitespace and     *)
(* accept one leading sign.  A Decimal keeps its sign, its digits and its  *)
(* exponent, which is what makes it exact.  (Underscores, exponents and    *)
(* the special values NaN and Infinity are outside the alphabet of the     *)
(* inputs of this model.)                                                  *)
(***************************************************************************)
DigitValue(c) == CHOOSE d \in 0..9 : ToString(d) = c

RECURSIVE Number(_, _)
\* the number written by the first n digits of ds
Number(ds, n) == IF n = 0 THEN 0 ELSE 10 * Number(ds, n - 1) + DigitValue(ds[n])

AllDigits(s) == \A i \in 1..Len(s) : s[i] \in Digits

Unsigned(s) == IF s # <<>> /\ s[1] \in {"+", "-"} THEN Tail(s) ELSE s
Negative(s) == s # <<>> /\ s[1] = "-"

int_digits(negative, ds) ==
    IF ds # <<>> /\ AllDigits(ds)
    THEN Returned(IF negative THEN 0 - Number(ds, Len(ds)) ELSE Number(ds, Len(ds)))
    ELSE Raised(IntError)

int_literal(s) == int_digits(Negative(s), Unsigned(s))

int(text) == int_literal(strip(text))

decimal_digits(negative, whole, frac) ==
    IF AllDigits(whole) /\ AllDigits(frac) /\ whole \o frac # <<>>
    THEN Returned([sign |-> IF negative THEN 1 ELSE 0,
                   int |-> Number(whole \o frac, Len(whole) + Len(frac)),
                   exp |-> 0 - Len(frac)])
    ELSE Raised(DecimalError)

decimal_parts(negative, parts) ==
    decimal_digits(negative, parts[1], IF Len(parts) = 2 THEN parts[2] ELSE <<>>)

decimal_literal(s) == decimal_parts(Negative(s), split1(Unsigned(s), <<".">>))

Decimal(text) == decimal_literal(strip(text))

Convert(kind, text) ==
    CASE kind = "int" -> int(text)
      [] kind = "Decimal" -> Decimal(text)
      [] OTHER -> Returned(text)

(***************************************************************************)
(* The decoders.  from_line is a chain of                                  *)
(*     name, line = line.split("^", 1); name = <conversion>(name)          *)
(* links, one per field of the record.  Unpack is link k of that chain     *)
(* and the links after it, with the conversions of the fields in `kinds`:  *)
(* the split (Unpack), the tuple assignment, which fails when the split    *)
(* found no "^" (unpack_parts), the conversion, the last link stripping    *)
(* "^" from the right of its field first (unpack_field), and the links     *)
(* that follow (unpack_rest).                                              *)
(***************************************************************************)
RECURSIVE Unpack(_, _, _)
RECURSIVE unpack_parts(_, _, _)
RECURSIVE unpack_field(_, _, _, _)

unpack_rest(value, rest) ==
    IF rest.ok THEN Returned(<<value>> \o rest.value) ELSE rest

unpack_field(v, line, kinds, k) ==
    IF ~v.ok THEN Raised(v.error) ELSE unpack_rest(v.value, Unpack(line, kinds, k + 1))

unpack_parts(parts, kinds, k) ==
    IF Len(parts) < 2 THEN Raised(UnpackError)
    ELSE unpack_field(
            Convert(kinds[k], IF k = Len(kinds) THEN rstrip(parts[1], {"^"}) ELSE parts[1]),
            parts[2], kinds, k)

Unpack(line, kinds, k) ==
    IF k > Len(kinds) THEN Returned(<<>>) ELSE unpack_parts(split1(line, Caret), kinds, k)

DownstreamKinds == <<"int", "str", "str", "int", "Decimal", "Decimal", "Decimal", "int", "int">>
UpstreamKinds == <<"int", "str", "str", "int", "Decimal", "Decimal", "Decimal">>

\* the DownstreamChannel dataclass
DownstreamChannel(f) ==
    IF f.ok
    THEN Returned([channel |-> f.value[1], lock_status |-> f.value[2],
                   modulation |-> f.value[3], channel_id |-> f.value[4],
                   frequency |-> f.value[5], power |-> f.value[6], snr |-> f.value[7],
                   corrected |-> f.value[8], uncorrected |-> f.value[9]])
    ELSE f

\* the UpstreamChannel dataclass
UpstreamChannel(f) ==
    IF f.ok
    THEN Returned([channel |-> f.value[1], lock_status |-> f.value[2],
                   channel_type |-> f.value[3], channel_id |-> f.value[4],
                   symbol_rate |-> f.value[5], frequency |-> f.value[6],
                   power |-> f.value[7]])
    ELSE f

DownstreamChannel_from_line(line) == DownstreamChannel(Unpack(line, DownstreamKinds, 1))

UpstreamChannel_from_line(line) == UpstreamChannel(Unpack(line, UpstreamKinds, 1))

Classes == {"DownstreamChannel", "UpstreamChannel"}

(***************************************************************************)
(* ModemLog.from_line.  dateutil's parse_datetime is taken for what it     *)
(* does on the markers a modem sends: a marker that begins with a time of  *)
(* day "hh:mm:ss" and goes on with a date is an instant, kept here as the  *)
(* text that was parsed; a text without any number in it, like "Time Not   *)
(* Established", is no date and raises ParserError.                        *)
(***************************************************************************)
LogSep == <<"}", "-", "{">>
Newline == <<"\n">>
ParserError == Error("ParserError", "Unknown string format")

\* str.replace(old, new) for single characters
replace(s, old, new) == [i \in 1..Len(s) |-> IF s[i] = old THEN new ELSE s[i]]

\* the text begins with a time of day and goes on after a space
IsInstant(text) ==
    /\ Len(text) > 9
    /\ \A i \in {1, 2, 4, 5, 7, 8} : text[i] \in Digits
    /\ text[3] = ":" /\ text[6] = ":" /\ text[9] = " "

parse_datetime(text) ==
    IF IsInstant(text) THEN Returned(text) ELSE Raised(ParserError)

\* the ModemLog dataclass, from the level and the message split off last
log_level(timestamp, parts) ==
    IF Len(parts) < 2 THEN Raised(UnpackError)
    ELSE Returned([timestamp |-> timestamp, level |-> parts[1], message |-> parts[2]])

log_timestamp(timestamp, line) ==
    IF ~timestamp.ok THEN Raised(timestamp.error)
    ELSE log_level(timestamp.value, split1(lstrip(line, {"^"}), Caret))

log_parts(parts) ==
    IF Len(parts) < 2 THEN Raised(UnpackError)
    ELSE log_timestamp(parse_datetime(replace(parts[1], "^", " ")), parts[2])

ModemLog_from_line(line) == log_parts(split1(line, Newline))

from_line(cls, line) ==
    IF cls = "DownstreamChannel" THEN DownstreamChannel_from_line(line)
    ELSE IF cls = "UpstreamChannel" THEN UpstreamChannel_from_line(line)
    ELSE ModemLog_from_line(line)

(***************************************************************************)
(* from_response is a generator function: calling it runs none of its     *)
(* body and returns a generator object; each resumption runs the loop to   *)
(* its next yield.  The object is the text it was called with, the number  *)
(* of lines already yielded, and whether it is still open.  An exception   *)
(* raised in the body, like the end of the loop, closes the generator.     *)
(***************************************************************************)
NoGen == [cls |-> "", response |-> <<>>, yielded |-> 0, state |-> "none"]

from_response(cls, response) ==
    [cls |-> cls, response |-> response, yielded |-> 0, state |-> "created"]

\* what a resumption gives the caller, and the generator it leaves
Stop(g) ==
    [out |-> "stop", value |-> 0, error |-> NoError, gen |-> [g EXCEPT !.state = "closed"]]

Yield(g, r) ==
    IF r.ok
    THEN [out |-> "yield", value |-> r.value, error |-> NoError,
          gen |-> [g EXCEPT !.state = "running", !.yielded = @ + 1]]
    ELSE [out |-> "raise", value |-> 0, error |-> r.error,
          gen |-> [g EXCEPT !.state = "closed"]]

\* a loop that ends one line early
loop_one_short(g, lines) ==
    IF g.state = "closed" \/ g.yielded >= Len(lines) - 1 THEN Stop(g)
    ELSE Yield(g, from_line(g.cls, lines[g.yielded + 1]))

\* the loop of from_response over `lines`, resumed after g.yielded yields
loop(g, lines) ==
    IF g.state = "closed" \/ g.yielded >= Len(lines) THEN Stop(g)
    ELSE Yield(g, from_line(g.cls, lines[g.yielded + 1]))

\* one resumption of the generator
resume(g) == loop(g, split(g.response, IF g.cls = "ModemLog" THEN LogSep ELSE TableSep))

(***************************************************************************)
(* The records a modem may put into a channel table.                       *)
(***************************************************************************)
\* 5^Locked^QAM256^2^591000000^-1.2^38.1^10^0
Row5 ==
    <<"5", "^", "L", "o", "c", "k", "e", "d", "^", "Q", "A", "M", "2", "5", "6", "^", "2", "^", "5", "9", "1", "0", "0", "0", "0", "0", "0", "^", "-", "1", ".", "2", "^", "3", "8", ".", "1", "^", "1", "0", "^", "0">>

\* 6^Locked^QAM256^3^597000000^-0.5^38.5^5^0
Row6 ==
    <<"6", "^", "L", "o", "c", "k", "e", "d", "^", "Q", "A", "M", "2", "5", "6", "^", "3", "^", "5", "9", "7", "0", "0", "0", "0", "0", "0", "^", "-", "0", ".", "5", "^", "3", "8", ".", "5", "^", "5", "^", "0">>

\* 1^Locked^QAM256^20^543.0^ 3.4^40.7^0^0^
RowSpaced ==
    <<"1", "^", "L", "o", "c", "k", "e", "d", "^", "Q", "A", "M", "2", "5", "6", "^", "2", "0", "^", "5", "4", "3", ".", "0", "^", " ", "3", ".", "4", "^", "4", "0", ".", "7", "^", "0", "^", "0", "^">>

\* +7^a|+^|b^4^5^-6^.7^8^9^
RowBars ==
    <<"+", "7", "^", "a", "|", "+", "^", "|", "b", "^", "4", "^", "5", "^", "-", "6", "^", ".", "7", "^", "8", "^", "9", "^">>

\* 1^locked
RowShort ==
    <<"1", "^", "l", "o", "c", "k", "e", "d">>

\* 2^Locked^SC-QAM^3^5120^16.4^41.0^
RowUp ==
    <<"2", "^", "L", "o", "c", "k", "e", "d", "^", "S", "C", "-", "Q", "A", "M", "^", "3", "^", "5", "1", "2", "0", "^", "1", "6", ".", "4", "^", "4", "1", ".", "0", "^">>

\* 1^a^b^2^3^4^5^6^7^8^
RowLong ==
    <<"1", "^", "a", "^", "b", "^", "2", "^", "3", "^", "4", "^", "5", "^", "6", "^", "7", "^", "8", "^">>

\* 1^a^b^2^x^4^5^6^7^
RowBad ==
    <<"1", "^", "a", "^", "b", "^", "2", "^", "x", "^", "4", "^", "5", "^", "6", "^", "7", "^">>

\* x^a^b^2^3^4^5^6^7^
RowWord ==
    <<"x", "^", "a", "^", "b", "^", "2", "^", "3", "^", "4", "^", "5", "^", "6", "^", "7", "^">>

RowTexts ==
    {Row5, Row6, Row5 \o Caret, Row6 \o Caret, RowSpaced, RowBars, RowShort, RowUp,
     RowLong, RowBad, RowWord}

\* the tables: up to MaxRecords records joined by "|+|"; no record at all is the empty text
Rows == UNION {[1..n -> RowTexts] : n \in 0..MaxRecords}

(***************************************************************************)
(* The action client.                                                      *)
(***************************************************************************)
_KNOWN_ACTIONS ==
    {"Login", "GetHomeConnection", "GetHomeAddress", "GetMotoStatusSoftware",
     "GetMotoStatusLog", "GetMotoLagStatus", "GetMotoStatusConnectionInfo",
     "GetMotoStatusDownstreamChannelInfo", "GetMotoStatusStartupSequence",
     "GetMotoStatusUpstreamChannelInfo"}

_SOAP_NAMESPACE == "http://purenetworks.com/HNAP1/"

\* MotoClient.__init__ with no arguments and no environment: the defaults
_username == "admin"
_password == "motorola"

\* a Python dict with string keys is a function on its keys
EmptyDict == [k \in {} |-> ""]

\* RequestsCookieJar.set(name, value, path="/")
set_cookie(jar, name, value) ==
    [k \in DOMAIN jar \cup {name} |-> IF k = name THEN value ELSE jar[k]]

\* a key property whose default is the empty string
_private_key_empty(jar) ==
    IF "PrivateKey" \in DOMAIN jar THEN jar["PrivateKey"] ELSE ""

\* the _private_key property: the cookie, or the placeholder when there is none
_private_key(jar) ==
    IF "PrivateKey" \in DOMAIN jar THEN jar["PrivateKey"] ELSE "withoutloginkey"

\* _timestamp(): the clock as a decimal string.  The readings of this model are
\* below 2 * 10^12, where the reduction modulo that number changes nothing.
_timestamp(now) == ToString(now)

\* _md5sum(key, data): the upper-case hex HMAC-MD5 of data under key, as the
\* term naming it: equal digests come from equal keys and equal data only.
_md5sum(key, data) == "HMAC-MD5(" \o key \o "," \o data \o ")"

\* a header built from two readings of the clock
_hnap_auth_two_readings(jar, action, now) ==
    _md5sum(_private_key(jar), _timestamp(now) \o _SOAP_NAMESPACE \o action)
        \o " " \o _timestamp(now + 1)

_hnap_auth(jar, action, now) ==
    LET timestamp == _timestamp(now)
        data == timestamp \o _SOAP_NAMESPACE \o action
        md5sum == _md5sum(_private_key(jar), data)
    IN  md5sum \o " " \o timestamp

\* self._session.post(...): the request as it goes out, the jar's cookies with it
Request(jar, action, params, now) ==
    [action |-> action, params |-> params,
     SOAPAction |-> _SOAP_NAMESPACE \o action,
     HNAP_AUTH |-> _hnap_auth(jar, action, now),
     cookies |-> jar]

(***************************************************************************)
(* Response bodies.  A body is text that is not JSON, or a JSON document:  *)
(* an object with its members, or a document of another type (an array).   *)
(***************************************************************************)
NotJson == [json |-> FALSE, type |-> "", members |-> EmptyDict]
JsonArray == [json |-> TRUE, type |-> "array", members |-> EmptyDict]
JsonObject(members) == [json |-> TRUE, type |-> "object", members |-> members]

UnknownAction == Error("ValueError", "Unknown action")
DecodeError == Error("MotoError", "Unable to decode JSON response.")
NoResponse == Error("MotoError", "No response from modem.")
NotSubscriptable == Error("TypeError", "list indices must be integers or slices, not str")
KeyError(key) == Error("KeyError", key)

\* the try block of _do_action: json.loads, then response[action + "Response"]
unwrap(action, body) ==
    IF ~body.json THEN Raised(DecodeError)
    ELSE IF body.type # "object" THEN Raised(NotSubscriptable)
    ELSE IF (action \o "Response") \notin DOMAIN body.members THEN Raised(NoResponse)
    ELSE Returned(body.members[action \o "Response"])

\* a _do_action without the allow-list check
_do_action_unchecked(jar, action, params, now, body) ==
    [posted |-> TRUE, outcome |-> unwrap(action, body)]

\* _do_action(action, params), answered with `body` when it posts
_do_action(jar, action, params, now, body) ==
    IF action \notin _KNOWN_ACTIONS
    THEN [posted |-> FALSE, outcome |-> Raised(UnknownAction)]
    ELSE [posted |-> TRUE, outcome |-> unwrap(action, body)]

\* _do_actions(*actions): the action it performs and the parameters it passes
_do_actions_action == "GetMultipleHNAPs"
_do_actions_params(actions) == [a \in actions |-> ""]

\* the parameters of the two Login requests
LoginParams(mode, password) ==
    [Action |-> mode, Captcha |-> "", PrivateLogin |-> "LoginPassword",
     Username |-> _username, LoginPassword |-> password]

\* login(): the key derived from the first response
private_key(response) ==
    _md5sum(response["PublicKey"] \o _password, response["Challenge"])

\* a login password hashed under the configured password
login_password_plain(jar, challenge) == _md5sum(_password, challenge)

\* login(): the password of the second request, from the key now in the jar
login_password(jar, challenge) == _md5sum(_private_key(jar), challenge)

(***************************************************************************)
(* What the modem may answer.                                              *)
(***************************************************************************)
Handshake(public_key, challenge, cookie) ==
    [LoginResult |-> "OK", PublicKey |-> public_key, Challenge |-> challenge, Cookie |-> cookie]

LoginValues ==
    {Handshake("PK1", "CH1", "UID1"), Handshake("PK2", "CH2", "UID2"),
     [LoginResult |-> "OK", PublicKey |-> "PK1", Challenge |-> "CH1"],
     [LoginResult |-> "OK"], [LoginResult |-> "FAILED"]}

\* one event log entry
LogText ==
    <<"0", "1", ":", "0", "2", ":", "0", "3", "^", "M", "o", "n", " ", "J", "a", "n", " ", "0", "1", " ", "2", "0", "2", "4", "\n", "^", "N", "o", "t", "i", "c", "e", "^", "u", "p">>

\* a later entry
LogLate ==
    <<"0", "4", ":", "0", "5", ":", "0", "6", "^", "T", "u", "e", " ", "J", "a", "n", " ", "0", "2", " ", "2", "0", "2", "4", "\n", "^", "C", "r", "i", "t", "i", "c", "a", "l", "^", "t", "3">>

\* an entry written before the modem had the time
LogUnset ==
    <<"T", "i", "m", "e", " ", "N", "o", "t", " ", "E", "s", "t", "a", "b", "l", "i", "s", "h", "e", "d", "\n", "^", "N", "o", "t", "i", "c", "e", "^", "b", "o", "o", "t">>

\* the same with the marker followed by "^" at once, as src/logs.py reads it
LogUnsetFlat ==
    <<"T", "i", "m", "e", " ", "N", "o", "t", " ", "E", "s", "t", "a", "b", "l", "i", "s", "h", "e", "d", "^", "N", "o", "t", "i", "c", "e", "^", "b", "o", "o", "t">>

\* an entry without the "^" between level and message
LogNoLevel ==
    <<"0", "1", ":", "0", "2", ":", "0", "3", "^", "M", "o", "n", " ", "J", "a", "n", " ", "0", "1", " ", "2", "0", "2", "4", "\n", "^", "u", "p">>

\* an entry without a marker
LogBare ==
    <<"u", "p">>

LogTexts == {LogText, LogLate, LogUnset, LogUnsetFlat, LogNoLevel, LogBare}

\* the log lists: up to MaxRecords entries joined by "}-{"
Logs == UNION {[1..n -> LogTexts] : n \in 0..MaxRecords}

Values(action) ==
    CASE action = "Login" -> LoginValues
      [] action = "GetMotoStatusLog" ->
            {[MotoStatusLogList |-> LogText], [GetMotoStatusLogResult |-> "ERROR"]}
      [] action = "GetMotoStatusDownstreamChannelInfo" ->
            {[MotoConnDownstreamChannel |-> join(<<Row5 \o Caret, Row6 \o Caret>>, TableSep)],
             [MotoConnDownstreamChannel |-> <<>>]}
      [] action = "GetMotoStatusUpstreamChannelInfo" ->
            {[MotoConnUpstreamChannel |-> RowUp], [MotoConnUpstreamChannel |-> RowShort]}
      [] OTHER -> {[Result |-> "OK"]}

Bodies(action) ==
    {NotJson, JsonArray, JsonObject(EmptyDict)}
        \cup {JsonObject((action \o "Response") :> v) : v \in Values(action)}

\* the bodies that may answer a call: a call that posts nothing is answered by none
Replies(action) == IF action \in _KNOWN_ACTIONS THEN Bodies(action) ELSE {NotJson}

\* the action names tried in direct calls: some of the list, some not
ActionNames == {"GetHomeConnection", "GetMultipleHNAPs", "login"}

\* the argument lists tried with _do_actions
ActionLists == {{"GetMotoStatusLog"}, {"GetHomeConnection", "GetHomeAddress"}}

(***************************************************************************)
(* The state after MotoClient() is constructed, and the client's calls.    *)
(***************************************************************************)
NoResult ==
    [op |-> "", action |-> "", args |-> {}, ok |-> TRUE, value |-> EmptyDict, error |-> NoError]
NoFrame == [challenge |-> "", login_password |-> ""]

ClientInit ==
    /\ cookies = EmptyDict
    /\ clock = 0
    /\ sent = <<>>
    /\ received = NotJson
    /\ result = NoResult
    /\ pc = "idle"
    /\ frame = NoFrame

\* the call `op` ended with `outcome`; `action` is what it last gave to _do_action
Ended(op, action, args, outcome) ==
    [op |-> op, action |-> action, args |-> args,
     ok |-> outcome.ok, value |-> outcome.value, error |-> outcome.error]

\* the call `op` has not ended yet
Running(op, action) == Ended(op, action, {}, Returned(EmptyDict))

\* the exchange of one _do_action call: posted and answered, or not posted at all
Exchange(call, request, body) ==
    /\ sent' = IF call.posted THEN Append(sent, request) ELSE sent
    /\ received' = IF call.posted THEN body ELSE received

\* time passes
Tick ==
    /\ clock < MaxClock
    /\ clock' = clock + 1
    /\ UNCHANGED <<cookies, sent, received, result, pc, frame, rows, gen, records, raised,
                   replay, sink, log, poll>>

\* a direct call _do_action(action, {})
DoAction(action, body) ==
    /\ pc = "idle"
    /\ Len(sent) < MaxSent
    /\ LET call == _do_action(cookies, action, EmptyDict, clock, body)
       IN  /\ Exchange(call, Request(cookies, action, EmptyDict, clock), body)
           /\ result' = Ended("_do_action", action, {}, call.outcome)
    /\ UNCHANGED <<cookies, clock, pc, frame, rows, gen, records, raised, replay, sink, log, poll>>

\* a call _do_actions(*actions)
DoActions(actions, body) ==
    /\ pc = "idle"
    /\ Len(sent) < MaxSent
    /\ LET params == _do_actions_params(actions)
           call == _do_action(cookies, _do_actions_action, params, clock, body)
       IN  /\ Exchange(call, Request(cookies, _do_actions_action, params, clock), body)
           /\ result' = Ended("_do_actions", _do_actions_action, actions, call.outcome)
    /\ UNCHANGED <<cookies, clock, pc, frame, rows, gen, records, raised, replay, sink, log, poll>>

\* login(), to the point where the second request is about to be made
login_request(body) ==
    /\ LET params == LoginParams("request", "")
           call == _do_action(cookies, "Login", params, clock, body)
           response == call.outcome.value
           fails(error) ==
                /\ result' = Ended("login", "Login", {}, Raised(error))
                /\ pc' = "idle"
                /\ frame' = NoFrame
       IN  /\ Exchange(call, Request(cookies, "Login", params, clock), body)
           /\ IF ~call.outcome.ok
              THEN fails(call.outcome.error) /\ cookies' = cookies
              ELSE IF "PublicKey" \notin DOMAIN response
              THEN fails(KeyError("PublicKey")) /\ cookies' = cookies
              ELSE IF "Challenge" \notin DOMAIN response
              THEN fails(KeyError("Challenge")) /\ cookies' = cookies
              ELSE LET challenge == response["Challenge"]
                       keyed == set_cookie(cookies, "PrivateKey", private_key(response))
                   IN  IF "Cookie" \notin DOMAIN response
                       THEN fails(KeyError("Cookie")) /\ cookies' = keyed
                       ELSE /\ cookies' = set_cookie(keyed, "uid", response["Cookie"])
                            /\ frame' = [challenge |-> challenge,
                                         login_password |-> login_password(keyed, challenge)]
                            /\ pc' = "login2"
                            /\ result' = Running("login", "Login")

\* a call of login() on the client
LoginRequest(body) ==
    /\ pc = "idle"
    /\ Len(sent) + 2 <= MaxSent
    /\ login_request(body)
    /\ UNCHANGED <<clock, rows, gen, records, raised, replay, sink, log, poll>>

\* login(), its second request and its return
login_login(body) ==
    /\ LET params == LoginParams("login", frame.login_password)
           call == _do_action(cookies, "Login", params, clock, body)
       IN  /\ Exchange(call, Request(cookies, "Login", params, clock), body)
           /\ result' = Ended("login", "Login", {}, call.outcome)
    /\ pc' = "idle"
    /\ frame' = NoFrame
    /\ cookies' = cookies

\* the call of login() goes on
LoginLogin(body) ==
    /\ pc = "login2"
    /\ login_login(body)
    /\ UNCHANGED <<clock, rows, gen, records, raised, replay, sink, log, poll>>

\* get_logs, get_downstream_channels, get_upstream_channels: one action, one
\* member of its response, and the decoder whose generator is returned
Getters ==
    {[op |-> "get_logs", action |-> "GetMotoStatusLog",
      member |-> "MotoStatusLogList", cls |-> "ModemLog"],
     [op |-> "get_downstream_channels", action |-> "GetMotoStatusDownstreamChannelInfo",
      member |-> "MotoConnDownstreamChannel", cls |-> "DownstreamChannel"],
     [op |-> "get_upstream_channels", action |-> "GetMotoStatusUpstreamChannelInfo",
      member |-> "MotoConnUpstreamChannel", cls |-> "UpstreamChannel"]}

get(g, body) ==
    /\ LET call == _do_action(cookies, g.action, EmptyDict, clock, body)
           response == call.outcome.value
       IN  /\ Exchange(call, Request(cookies, g.action, EmptyDict, clock), body)
           /\ IF ~call.outcome.ok
              THEN result' = Ended(g.op, g.action, {}, call.outcome) /\ gen' = NoGen
              ELSE IF g.member \notin DOMAIN response
              THEN result' = Ended(g.op, g.action, {}, Raised(KeyError(g.member))) /\ gen' = NoGen
              ELSE /\ result' = Ended(g.op, g.action, {}, Returned(EmptyDict))
                   /\ gen' = from_response(g.cls, response[g.member])

\* a call of one of the three getters on the client
Get(g, body) ==
    /\ pc = "idle"
    /\ Len(sent) < MaxSent
    /\ get(g, body)
    /\ UNCHANGED <<cookies, clock, pc, frame, rows, records, raised, replay, sink, log, poll>>

\* no second pass begun
NoReplay == [done |-> FALSE, records |-> <<>>]

ParseIdle ==
    /\ gen = NoGen
    /\ records = <<>>
    /\ raised = NoError
    /\ replay = NoReplay

\* no run of _ingest yet
NoPoll == [run |-> 0, at |-> "sleep"]

PollIdle ==
    /\ sink = <<>>
    /\ log = <<>>
    /\ poll = NoPoll

Init ==
    /\ ClientInit
    /\ ParseIdle
    /\ PollIdle
    /\ rows = <<>>

Next ==
    \/ Tick
    \/ \E action \in ActionNames : \E body \in Replies(action) : DoAction(action, body)
    \/ \E actions \in ActionLists : \E body \in Replies(_do_actions_action) : DoActions(actions, body)
    \/ \E body \in Bodies("Login") : LoginRequest(body)
    \/ \E body \in Bodies("Login") : LoginLogin(body)
    \/ \E g \in Getters : \E body \in Bodies(g.action) : Get(g, body)

Spec == Init /\ [][Next]_vars

(***************************************************************************)
(* The decoders on their own: the modem has put some records into a table, *)
(* from_response is called on the table, and the caller takes the records  *)
(* from the generator one at a time, as list() and a for loop do.          *)
(***************************************************************************)
ParseInit ==
    /\ ClientInit
    /\ ParseIdle
    /\ PollIdle
    /\ rows \in Rows

\* cls.from_response(table)
FromResponse(cls) ==
    /\ gen.state = "none"
    /\ gen' = from_response(cls, join(rows, TableSep))
    /\ UNCHANGED <<cookies, clock, sent, received, result, pc, frame, records, raised, rows,
                   replay, sink, log, poll>>

\* what the caller does with what a resumption gave
Take(r) ==
    /\ gen' = r.gen
    /\ records' = IF r.out = "yield" THEN Append(records, r.value) ELSE records
    /\ raised' = IF r.out = "raise" THEN r.error ELSE raised

\* the caller asks the generator for its next record
Iterate ==
    /\ gen.state \in {"created", "running"}
    /\ Take(resume(gen))
    /\ UNCHANGED <<cookies, clock, sent, received, result, pc, frame, rows, replay, sink, log, poll>>

\* the caller iterates the same generator object again, after a complete pass
IterateAgain ==
    /\ gen.state = "closed"
    /\ raised = NoError
    /\ ~replay.done
    /\ gen' = resume(gen).gen
    /\ replay' = IF resume(gen).out = "yield"
                 THEN [replay EXCEPT !.records = Append(@, resume(gen).value)]
                 ELSE [replay EXCEPT !.done = TRUE]
    /\ raised' = IF resume(gen).out = "raise" THEN resume(gen).error ELSE raised
    /\ UNCHANGED <<cookies, clock, sent, received, result, pc, frame, rows, records,
                   sink, log, poll>>

ParseNext ==
    \/ \E cls \in Classes : FromResponse(cls)
    \/ Iterate
    \/ IterateAgain

ParseSpec == ParseInit /\ [][ParseNext]_vars

(***************************************************************************)
(* The log decoder on its own: ModemLog.from_response on a log list, and   *)
(* the caller taking the entries from the generator.                       *)
(***************************************************************************)
LogInit ==
    /\ ClientInit
    /\ ParseIdle
    /\ PollIdle
    /\ rows \in Logs

\* ModemLog.from_response(list)
FromLogResponse ==
    /\ gen.state = "none"
    /\ gen' = from_response("ModemLog", join(rows, LogSep))
    /\ UNCHANGED <<cookies, clock, sent, received, result, pc, frame, records, raised, rows,
                   replay, sink, log, poll>>

LogNext ==
    \/ FromLogResponse
    \/ Iterate

LogSpec == LogInit /\ [][LogNext]_vars

(***************************************************************************)
(* The periodic poll of cli.run: every run of _ingest makes a new          *)
(* InfluxClient and a new MotoClient, logs in, and fetches and ingests the *)
(* logs, the downstream channels and the upstream channels, each in a try  *)
(* block of its own whose bare except logs the failure and goes on.        *)
(***************************************************************************)
MaxRuns == 2        \* runs of _ingest in one behaviour

\* a session that takes over the jar of the client before it
Session_kept == cookies

\* Session(): the jar of the session a new MotoClient makes for itself
Session == EmptyDict

\* the try blocks of _ingest, in order, and what each logs when it fails
After(at) ==
    CASE at = "login" -> "logs"
      [] at = "logs" -> "downstream"
      [] at = "downstream" -> "upstream"
      [] at = "upstream" -> "sleep"

Failure(at) ==
    CASE at = "login" -> "failed to log in"
      [] at = "logs" -> "failed to get logs"
      [] at = "downstream" -> "failed to get downstream channels"
      [] at = "upstream" -> "failed to get upstream channels"

Fetches == {"logs", "downstream", "upstream"}

\* the getter called in a try block
Getter(at) ==
    CHOOSE g \in Getters :
        g.op = (CASE at = "logs" -> "get_logs"
                  [] at = "downstream" -> "get_downstream_channels"
                  [] at = "upstream" -> "get_upstream_channels")

\* log.exception(msg) in the current run
Logged(msg) == Append(log, [run |-> poll.run, msg |-> msg])

\* what the modem answers during a poll
PollValues(action) ==
    CASE action = "Login" -> {Handshake("PK1", "CH1", "UID1"), [LoginResult |-> "OK"]}
      [] action = "GetMotoStatusLog" -> {[MotoStatusLogList |-> LogText]}
      [] action = "GetMotoStatusDownstreamChannelInfo" ->
            {[MotoConnDownstreamChannel |-> join(<<Row5 \o Caret, Row6 \o Caret>>, TableSep)],
             [MotoConnDownstreamChannel |-> join(<<Row5 \o Caret, RowShort>>, TableSep)]}
      [] action = "GetMotoStatusUpstreamChannelInfo" ->
            {[MotoConnUpstreamChannel |-> RowUp],
             [MotoConnUpstreamChannel |-> join(<<RowUp, RowWord>>, TableSep)]}

PollBodies(action) ==
    {NotJson} \cup {JsonObject((action \o "Response") :> v) : v \in PollValues(action)}

\* the scheduler runs _ingest: influx = InfluxClient(), moto = MotoClient()
PollBegin ==
    /\ poll.at = "sleep"
    /\ poll.run < MaxRuns
    /\ poll' = [run |-> poll.run + 1, at |-> "login"]
    /\ cookies' = Session
    /\ sent' = <<>>
    /\ received' = NotJson
    /\ result' = NoResult
    /\ pc' = "idle"
    /\ frame' = NoFrame
    /\ gen' = NoGen
    /\ records' = <<>>
    /\ raised' = NoError
    /\ sink' = <<>>
    /\ UNCHANGED <<clock, rows, replay, log>>

\* the first try block: moto.login(), to its second request or to its failure
PollLoginRequest(body) ==
    /\ poll.at = "login"
    /\ pc = "idle"
    /\ login_request(body)
    /\ log' = IF pc' = "idle" THEN Logged(Failure("login")) ELSE log
    /\ poll' = IF pc' = "idle" THEN [poll EXCEPT !.at = After("login")] ELSE poll
    /\ UNCHANGED <<clock, rows, gen, records, raised, replay, sink>>

\* the first try block: moto.login() from its second request on
PollLoginLogin(body) ==
    /\ poll.at = "login"
    /\ pc = "login2"
    /\ login_login(body)
    /\ log' = IF result'.ok THEN log ELSE Logged(Failure("login"))
    /\ poll' = [poll EXCEPT !.at = After("login")]
    /\ UNCHANGED <<clock, rows, gen, records, raised, replay, sink>>

\* a fetching try block: the call of the getter that opens its for loop
PollGet(at, body) ==
    /\ poll.at = at
    /\ gen.state = "none"
    /\ get(Getter(at), body)
    /\ log' = IF result'.ok THEN log ELSE Logged(Failure(at))
    /\ poll' = IF result'.ok THEN poll ELSE [poll EXCEPT !.at = After(at)]
    /\ records' = <<>>
    /\ raised' = NoError
    /\ UNCHANGED <<cookies, clock, pc, frame, rows, replay, sink>>

\* what the for loop of a fetching try block does with what a resumption gave
Ingest(at, r) ==
    /\ gen' = IF r.out = "yield" THEN r.gen ELSE NoGen
    /\ records' = IF r.out = "yield" THEN Append(records, r.value) ELSE records
    /\ sink' = IF r.out = "yield" THEN Append(sink, [cls |-> gen.cls, record |-> r.value]) ELSE sink
    /\ raised' = IF r.out = "raise" THEN r.error ELSE raised
    /\ log' = IF r.out = "raise" THEN Logged(Failure(at)) ELSE log
    /\ poll' = IF r.out = "yield" THEN poll ELSE [poll EXCEPT !.at = After(at)]

\* a fetching try block: one turn of its for loop, influx.ingest(...) in its body
PollIterate ==
    /\ poll.at \in Fetches
    /\ gen.state \in {"created", "running"}
    /\ Ingest(poll.at, resume(gen))
    /\ UNCHANGED <<cookies, clock, sent, received, result, pc, frame, rows, replay>>

PollNext ==
    \/ PollBegin
    \/ \E body \in PollBodies("Login") : PollLoginRequest(body)
    \/ \E body \in PollBodies("Login") : PollLoginLogin(body)
    \/ \E at \in Fetches : \E body \in PollBodies(Getter(at).action) : PollGet(at, body)
    \/ PollIterate

PollSpec == Init /\ [][PollNext]_vars

(***************************************************************************)
(* Properties of the action client, checked under Spec.                    *)
(***************************************************************************)
Last(seq) == seq[Len(seq)]

\* the value the modem gave under "<action>Response", when its body has one
HasAnswer(action, body) ==
    body.json /\ body.type = "object" /\ (action \o "Response") \in DOMAIN body.members
Answer(action, body) == body.members[action \o "Response"]

\* the HNAP_AUTH header of request r is the digest, under `key`, of one clock
\* reading followed by the namespace and the action, then a space and that reading
SignedWith(key, r) ==
    \E t \in 0..MaxClock :
        r.HNAP_AUTH = _md5sum(key, ToString(t) \o "http://purenetworks.com/HNAP1/" \o r.action)
                        \o " " \o ToString(t)

\* C1: a call of _do_action with an action name that is not in _KNOWN_ACTIONS
\* raises the "Unknown action" ValueError, posts no request and leaves the
\* cookie jar (uid, private key) as it was.
C1_UnknownActionRejected ==
    [][(result'.op \in {"_do_action", "_do_actions"} /\ result'.action \notin _KNOWN_ACTIONS)
          => /\ ~result'.ok
             /\ result'.error = Error("ValueError", "Unknown action")
             /\ sent' = sent
             /\ cookies' = cookies]_vars

\* C1 happens: an unknown action was rejected on a client that had logged in
C1_Witness ==
    /\ result.op = "_do_action"
    /\ result.action = "login"
    /\ ~result.ok
    /\ Len(sent) = 2
    /\ "PrivateKey" \in DOMAIN cookies

\* C2: after a call of _do_actions with allow-listed names, the last request
\* posted is the one for GetMultipleHNAPs, its parameters map every requested
\* name to the empty string, and the call has returned the value the modem gave
\* under "GetMultipleHNAPsResponse" when it gave one.
C2_BatchIssuesOneRequest ==
    (result.op = "_do_actions" /\ result.args \subseteq _KNOWN_ACTIONS)
        => /\ sent # <<>>
           /\ Last(sent).action = "GetMultipleHNAPs"
           /\ Last(sent).params = [a \in result.args |-> ""]
           /\ HasAnswer("GetMultipleHNAPs", received)
                => result.ok /\ result.value = Answer("GetMultipleHNAPs", received)

\* C3, between the two requests: the last request posted is the Login request
\* of mode "request" with an empty LoginPassword, and the jar holds the key
\* derived from, and the Cookie of, the response to it.
C3_Between ==
    pc = "login2"
        => /\ Last(sent).action = "Login"
           /\ Last(sent).params.Action = "request"
           /\ Last(sent).params.LoginPassword = ""
           /\ HasAnswer("Login", received)
           /\ cookies["PrivateKey"] =
                _md5sum(Answer("Login", received).PublicKey \o "motorola",
                        Answer("Login", received).Challenge)
           /\ cookies["uid"] = Answer("Login", received).Cookie

\* C3, the first request: entering the handshake posts exactly one request
C3_First ==
    (pc = "idle" /\ pc' = "login2")
        => /\ Len(sent') = Len(sent) + 1
           /\ SubSeq(sent', 1, Len(sent)) = sent

\* C3, the second request: it is the only request posted on leaving the
\* handshake, has mode "login", carries the digest of the Challenge under the
\* derived key, is signed with the derived key and goes out with the Cookie as uid
C3_Second ==
    (pc = "login2" /\ pc' # "login2")
        => /\ pc' = "idle"
           /\ Len(sent') = Len(sent) + 1
           /\ SubSeq(sent', 1, Len(sent)) = sent
           /\ LET v == Answer("Login", received)
                  key == _md5sum(v.PublicKey \o "motorola", v.Challenge)
                  second == Last(sent')
              IN  /\ second.action = "Login"
                  /\ second.params.Action = "login"
                  /\ second.params.LoginPassword = _md5sum(key, v.Challenge)
                  /\ SignedWith(key, second)
                  /\ second.cookies["PrivateKey"] = key
                  /\ second.cookies["uid"] = v.Cookie

\* C3: login makes two Login requests in order, mode "request" with an empty
\* LoginPassword and then mode "login"; between them it stores private_key =
\* H(PublicKey + password, Challenge) and uid = Cookie from the first response;
\* the second request carries H(private_key, Challenge) and is signed with the
\* new private key.
C3_LoginHandshake == [](C3_Between) /\ [][C3_First /\ C3_Second]_vars

\* C3 happens: a handshake was completed, its first request signed with the
\* placeholder key and its second with the derived one
C3_Witness ==
    /\ pc = "idle"
    /\ result.op = "login"
    /\ Len(sent) >= 2
    /\ Last(sent).action = "Login"
    /\ Last(sent).params.Action = "login"
    /\ SignedWith("withoutloginkey", sent[Len(sent) - 1])
    /\ ~SignedWith("withoutloginkey", Last(sent))

\* the modem answered a Login request with explicit success
ExplicitSuccess(body) ==
    /\ HasAnswer("Login", body)
    /\ "LoginResult" \in DOMAIN Answer("Login", body)
    /\ Answer("Login", body).LoginResult = "OK"

\* C4: when the second Login request is answered with anything but explicit
\* success, login has raised an authentication error and the jar holds neither
\* the private key nor the uid that the attempt stored.
C4_FailedLoginLeavesNoSession ==
    (/\ pc = "idle"
     /\ result.op = "login"
     /\ sent # <<>>
     /\ Last(sent).params.Action = "login"
     /\ ~ExplicitSuccess(received))
        => /\ ~result.ok
           /\ result.error.type = "AuthenticationFailed"
           /\ _private_key(cookies) # Last(sent).cookies["PrivateKey"]
           /\ ("uid" \in DOMAIN cookies => cookies["uid"] # Last(sent).cookies["uid"])

\* C5, first part: a step changes the jar only if it is a step of login
C5_OnlyLoginStores == cookies' # cookies => result'.op = "login"

\* C5, second part: a request posted before login has ever posted one is
\* signed with the placeholder key
C5_PlaceholderBeforeLogin ==
    \A i \in 1..Len(sent) :
        (\A j \in 1..(i - 1) : sent[j].action # "Login")
            => SignedWith("withoutloginkey", sent[i])

\* C5: the jar (uid, private key) is changed by login only: get_logs,
\* get_downstream_channels, get_upstream_channels and direct _do_action calls
\* leave it as it was; and a client that has never run login signs with the
\* placeholder "withoutloginkey".
C5_SessionStateOnlyByLogin == [](C5_PlaceholderBeforeLogin) /\ [][C5_OnlyLoginStores]_vars

\* C5 happens: the three getters have been called on a client that never logged in
C5_Witness ==
    /\ Len(sent) = 3
    /\ {sent[i].action : i \in 1..3} =
         {"GetMotoStatusLog", "GetMotoStatusDownstreamChannelInfo",
          "GetMotoStatusUpstreamChannelInfo"}
    /\ cookies = EmptyDict

\* C6: every request posted carries an HNAP_AUTH header that is the digest,
\* under the private key the jar held when the request went out (the
\* placeholder when it held none), of one timestamp followed by the namespace
\* and the action, then a space and the same timestamp.
C6_HeaderSignsOneTimestamp ==
    \A i \in 1..Len(sent) : SignedWith(_private_key(sent[i].cookies), sent[i])

\* C6 happens: a request signed with the placeholder key and, at a later
\* clock reading, a request signed with a session key
C6_Witness ==
    /\ Len(sent) = 3
    /\ sent[1].cookies = EmptyDict
    /\ "PrivateKey" \in DOMAIN sent[3].cookies
    /\ sent[3].action # "Login"
    /\ ~SignedWith("withoutloginkey", sent[3])
    /\ clock > 0

\* C7: a body that is not JSON makes a direct _do_action call raise the typed
\* decode error, a JSON body without the "<action>Response" key makes it raise
\* the typed missing-response error, and no error of another type comes out of
\* the handling of a response.
C7_ResponseErrorsAreTyped ==
    (result.op = "_do_action" /\ result.action \in _KNOWN_ACTIONS)
        => /\ ~received.json
                => ~result.ok /\ result.error = Error("MotoError", "Unable to decode JSON response.")
           /\ (received.json /\ ~HasAnswer(result.action, received))
                => ~result.ok /\ result.error = Error("MotoError", "No response from modem.")
           /\ ~result.ok => result.error.type = "MotoError"

(***************************************************************************)
(* Properties of the channel table decoders, checked under ParseSpec.      *)
(***************************************************************************)
Kinds(cls) == IF cls = "DownstreamChannel" THEN DownstreamKinds ELSE UpstreamKinds

\* the fields of a record of the device's format: each field, the last one too,
\* is followed by "^"
FieldsOf(row) == SubSeq(split(row, Caret), 1, Len(split(row, Caret)) - 1)

\* a well-formed record: as many "^"-terminated fields as the schema has, each
\* of its type, and no "|+|" in it
WellFormed(cls, row) ==
    /\ row # <<>>
    /\ Last(row) = "^"
    /\ find(row, TableSep) = 0
    /\ Len(FieldsOf(row)) = Len(Kinds(cls))
    /\ \A k \in 1..Len(Kinds(cls)) : Convert(Kinds(cls)[k], FieldsOf(row)[k]).ok

\* the values a well-formed record stands for, field by field
FieldValues(cls, row) ==
    [k \in 1..Len(Kinds(cls)) |-> Convert(Kinds(cls)[k], FieldsOf(row)[k]).value]

\* the fields of a decoded record, in the order of the schema
FieldsDecoded(cls, record) ==
    IF cls = "DownstreamChannel"
    THEN <<record.channel, record.lock_status, record.modulation, record.channel_id,
           record.frequency, record.power, record.snr, record.corrected, record.uncorrected>>
    ELSE <<record.channel, record.lock_status, record.channel_type, record.channel_id,
           record.symbol_rate, record.frequency, record.power>>

\* C8: of a table of n >= 1 well-formed records joined by "|+|" the caller gets
\* the records in source order, the i-th decoded from the i-th record of the
\* table, without an error, and exactly n of them once the generator has ended.
C8_TableYieldsEveryRecord ==
    (gen.state # "none" /\ rows # <<>> /\ \A i \in 1..Len(rows) : WellFormed(gen.cls, rows[i]))
        => /\ raised = NoError
           /\ Len(records) <= Len(rows)
           /\ \A i \in 1..Len(records) :
                FieldsDecoded(gen.cls, records[i]) = FieldValues(gen.cls, rows[i])
           /\ gen.state = "closed" => Len(records) = Len(rows)

\* C8 happens: a table of two different well-formed records was decoded to its end
C8_Witness ==
    /\ gen.state = "closed"
    /\ gen.cls = "DownstreamChannel"
    /\ Len(rows) = 2
    /\ rows[1] # rows[2]
    /\ \A i \in 1..2 : WellFormed(gen.cls, rows[i])
    /\ Len(records) = 2

\* the table of the end-to-end scenario
ScenarioTable == join(<<Row5, Row6>>, TableSep)

\* C9: a record whose last field is not followed by "^" decodes, and to the
\* record that the same text followed by "^" stands for; the scenario table
\* decodes to two downstream records, of channels 5 and 6 in that order.
C9_UnterminatedRecordDecodes ==
    /\ (/\ gen.state = "closed"
        /\ rows # <<>>
        /\ \A i \in 1..Len(rows) : Last(rows[i]) # "^" /\ WellFormed(gen.cls, rows[i] \o Caret))
          => /\ raised = NoError
             /\ Len(records) = Len(rows)
             /\ \A i \in 1..Len(rows) :
                  FieldsDecoded(gen.cls, records[i]) = FieldValues(gen.cls, rows[i] \o Caret)
    /\ (gen.state = "closed" /\ gen.cls = "DownstreamChannel" /\ gen.response = ScenarioTable)
          => /\ raised = NoError
             /\ Len(records) = 2
             /\ records[1].channel = 5
             /\ records[2].channel = 6

\* C10: the empty text decodes to no record at all, and without an error.
C10_EmptyTableDecodesToNothing ==
    (gen.state = "closed" /\ gen.response = <<>>)
        => raised = NoError /\ records = <<>>

\* the "^"-separated fields of a record, with or without a "^" after the last
Fields(row) ==
    split(IF row # <<>> /\ Last(row) = "^" THEN SubSeq(row, 1, Len(row) - 1) ELSE row, Caret)

\* a record with fewer fields than the schema of cls
TooFew(cls, row) == Len(Fields(row)) < Len(Kinds(cls))

\* a record with a value that is no number in a numeric field of the schema of cls
NonNumeric(cls, row) ==
    \E k \in 1..Len(Kinds(cls)) : k <= Len(Fields(row)) /\ ~Convert(Kinds(cls)[k], Fields(row)[k]).ok

\* a record with more fields than the schema of cls
Surplus(cls, row) == Len(Fields(row)) > Len(Kinds(cls))

\* the generator ended on an exception raised while decoding the record `row`
FailedOn(row) ==
    /\ gen.state = "closed"
    /\ raised # NoError
    /\ gen.yielded < Len(rows)
    /\ rows[gen.yielded + 1] = row

\* C11: a record with fewer fields than its schema, or with a value that is no
\* number in a numeric field, is never decoded into a record, and the decoding
\* of it ends with an error of the MalformedRecord kind.
C11_MalformedRecordIsTyped ==
    \A row \in RowTexts :
        (gen.state # "none" /\ (TooFew(gen.cls, row) \/ NonNumeric(gen.cls, row)))
            => /\ \A i \in 1..Len(records) : rows[i] # row
               /\ FailedOn(row) => raised.type = "MalformedRecord"

\* C12: a record with more fields than its schema (its values all of their
\* types) is never decoded into a record: the decoding of it ends with an error
\* of the MalformedRecord kind.
C12_SurplusFieldsRejected ==
    \A row \in RowTexts :
        (gen.state # "none" /\ Surplus(gen.cls, row) /\ ~NonNumeric(gen.cls, row))
            => /\ \A i \in 1..Len(records) : rows[i] # row
               /\ FailedOn(row) => raised.type = "MalformedRecord"

\* C13: a second pass over what from_response returned, made after a complete
\* first pass, gives the caller the records of the first pass, in the same order.
C13_SecondPassSeesSameRecords ==
    replay.done => replay.records = records

(***************************************************************************)
(* Properties of the log decoder, checked under LogSpec.                   *)
(***************************************************************************)
\* the marker of an entry written before the modem had the time
NotEstablished ==
    <<"T", "i", "m", "e", " ", "N", "o", "t", " ", "E", "s", "t", "a", "b", "l", "i", "s", "h", "e", "d">>

Sentinel(row) ==
    Len(row) >= Len(NotEstablished) /\ SubSeq(row, 1, Len(NotEstablished)) = NotEstablished

\* what follows the marker of a sentinel entry: "<level>^<message>"
AfterSentinel(row) ==
    lstrip(SubSeq(row, Len(NotEstablished) + 1, Len(row)), {"^", "\n"})

\* an entry with a time marker, a newline, and "<level>^<message>"
TimedEntry(row) ==
    /\ find(row, Newline) > 0
    /\ IsInstant(replace(SubSeq(row, 1, find(row, Newline) - 1), "^", " "))
    /\ find(lstrip(SubSeq(row, find(row, Newline) + 1, Len(row)), {"^"}), Caret) > 0

\* the timestamp of a record that has none
Absent == <<>>

\* C14: of a log list whose entries are sentinel entries and well-formed timed
\* entries the caller gets one record per entry without an error: a sentinel
\* entry gives a record without a timestamp, with its level and its message;
\* a timed entry gives a record with a timestamp.
C14_SentinelGivesAbsentTimestamp ==
    (/\ gen.state = "closed"
     /\ gen.cls = "ModemLog"
     /\ rows # <<>>
     /\ \A i \in 1..Len(rows) : Sentinel(rows[i]) \/ TimedEntry(rows[i]))
        => /\ raised = NoError
           /\ Len(records) = Len(rows)
           /\ \A i \in 1..Len(rows) :
                IF Sentinel(rows[i])
                THEN /\ records[i].timestamp = Absent
                     /\ <<records[i].level, records[i].message>> = split1(AfterSentinel(rows[i]), Caret)
                ELSE records[i].timestamp # Absent

(***************************************************************************)
(* Properties of the periodic poll, checked under PollSpec.                *)
(***************************************************************************)
\* the current run of _ingest has logged `msg`
LoggedNow(msg) == \E i \in 1..Len(log) : log[i] = [run |-> poll.run, msg |-> msg]

\* C15: a run posts a status fetch request only after the two Login requests of
\* its handshake, "request" and then "login", and only when its login has not
\* raised.
C15_FetchOnlyAfterLogin ==
    \A i \in 1..Len(sent) :
        sent[i].action \in {g.action : g \in Getters}
            => /\ i > 2
               /\ sent[1].action = "Login" /\ sent[1].params.Action = "request"
               /\ sent[2].action = "Login" /\ sent[2].params.Action = "login"
               /\ ~LoggedNow("failed to log in")

\* C16: while a run iterates a channel table that has a malformed record in it,
\* whatever its position, the sink holds no record of that table.
C16_MalformedTableIngestsNothing ==
    (/\ poll.at \in {"downstream", "upstream"}
     /\ gen.state # "none"
     /\ \E k \in 1..Len(split(gen.response, TableSep)) :
            \/ TooFew(gen.cls, split(gen.response, TableSep)[k])
            \/ NonNumeric(gen.cls, split(gen.response, TableSep)[k]))
        => \A i \in 1..Len(sink) : sink[i].cls # gen.cls

\* C17: every run of _ingest starts without a session: before its first
\* request the jar is empty, and the first request it posts is the Login
\* request of mode "request", signed with the placeholder key and sent with no
\* uid and no private key, whatever the runs before it did.
C17_RunsAreIndependent ==
    /\ (poll.at = "login" /\ pc = "idle") => (cookies = EmptyDict /\ sent = <<>>)
    /\ sent # <<>>
         => /\ sent[1].action = "Login"
            /\ sent[1].params.Action = "request"
            /\ SignedWith("withoutloginkey", sent[1])
            /\ sent[1].cookies = EmptyDict

\* C17 happens: the first request of a second run has been posted, after a
\* first run in which login failed and a fetch failed
C17_Witness ==
    /\ poll.run = 2
    /\ Len(sent) = 1
    /\ \E i \in 1..Len(log) : log[i] = [run |-> 1, msg |-> "failed to log in"]
    /\ \E i \in 1..Len(log) : log[i] = [run |-> 1, msg |-> "failed to get downstream channels"]
====
